---- MODULE Spec2Model ----
(***************************************************************************)
(* pysdr: the streaming FIR filter (pysdr/filters.py) and the receive      *)
(* worker with its overflow accounting (usrp_qt5_app.py).                   *)
(*                                                                         *)
(* Samples are complex numbers <<re, im>> with integer parts; a real       *)
(* sample has im = 0.  Timestamps are integers counting 1/TimeDen seconds. *)
(* The plots the worker redraws every 300th batch are left out: the loop   *)
(* counter i stays below 300 within MaxRecv batches.                       *)
(***************************************************************************)
EXTENDS Integers, Sequences, FiniteSets, TLC

\* ------------------------------------------------------------------ bounds
MaxTaps == 3        \* kernels have 1..MaxTaps taps
MaxSignal == 4      \* at most MaxSignal samples are fed to one filter
TimeDen == 2        \* timestamps count 1/TimeDen seconds
MaxTime == 1        \* timestamps 0..MaxTime
MaxRecv == 3        \* the worker calls recv at most MaxRecv times

VARIABLES
    \* fir_filter object
    taps, previous_batch,
    \* the driver of the filter (the unit test of filters.py)
    x, x_input, filter_output, y2, raised, short_fed,
    \* a second fir_filter built from the same taps, and the instance called last
    previous_batch_2, instance,
    \* whether the caller has overwritten the batch buffer since the last call
    batch_overwritten,
    \* benchmark_rx_rate: locals of the receive worker
    had_an_overflow, last_overflow,
    num_rx_samps, num_rx_dropped, num_rx_overruns, num_rx_seqerr,
    num_rx_timeouts, num_rx_late,
    rate, i, recv_ret,
    \* metadata, as filled by the last recv
    md_error_code, md_out_of_sequence, md_time_spec,
    \* where the worker and the main thread are
    pc_worker, pc_main,
    \* objects shared by the two threads
    timer_elapsed_event, rx_statistics, stream_cmds,
    \* the result of a read of rx_statistics by another thread
    snapshot, snapshot_taken

filter_vars ==
    <<taps, previous_batch, x, x_input, filter_output, y2, raised, short_fed,
      previous_batch_2, instance, batch_overwritten>>

worker_vars ==
    <<had_an_overflow, last_overflow, num_rx_samps, num_rx_dropped,
      num_rx_overruns, num_rx_seqerr, num_rx_timeouts, num_rx_late,
      rate, i, recv_ret, md_error_code, md_out_of_sequence, md_time_spec>>

app_vars ==
    <<worker_vars, pc_worker, pc_main, timer_elapsed_event, rx_statistics,
      stream_cmds, snapshot, snapshot_taken>>

vars == <<filter_vars, app_vars>>

\* ------------------------------------------------------- complex arithmetic
Re(z) == z[1]
Im(z) == z[2]
ToComplex(r) == <<r, 0>>
CAdd(a, b) == <<a[1] + b[1], a[2] + b[2]>>
CMul(a, b) == <<a[1] * b[1] - a[2] * b[2], a[1] * b[2] + a[2] * b[1]>>
IsReal(s) == \A m \in 1..Len(s) : Im(s[m]) = 0

SeqsUpTo(S, n) == UNION {[1..k -> S] : k \in 0..n}
SeqsFromTo(S, lo, hi) == UNION {[1..k -> S] : k \in lo..hi}

\* the values samples and taps are drawn from
SampleValues == {<<1, 0>>, <<2, 0>>, <<1, 1>>}
TapValues == {ToComplex(t) : t \in 1..2}

\* ------------------------------------------------------------ numpy helpers
\* np.zeros(n): n float64 zeros
Zeros(n) == [m \in 1..n |-> 0]

\* np.concatenate((float64 array, batch)): the result is promoted to complex
Concatenate(state, batch) == [m \in 1..Len(state) |-> ToComplex(state[m])] \o batch

RECURSIVE DotSum(_, _, _, _)
DotSum(a, v, k, j) ==
    IF j = 0 THEN <<0, 0>>
    ELSE CAdd(CMul(a[k + Len(v) - j], v[j]), DotSum(a, v, k, j - 1))

\* np.convolve(a, v, mode='valid') for non-empty a and v; numpy swaps the
\* arguments when v is the longer one
ConvolveValid(a, v) ==
    LET A == IF Len(v) > Len(a) THEN v ELSE a
        V == IF Len(v) > Len(a) THEN a ELSE v
    IN  [k \in 1..(Len(A) - Len(V) + 1) |-> DotSum(A, V, k, Len(V))]

\* the slice s[:n], the head of the batch where its tail is meant
LastSlice_Head(s, n) ==
    IF n = 0 \/ n >= Len(s) THEN s ELSE SubSeq(s, 1, n)

\* python slice s[-n:]  (s[-0:] is s[0:], the whole sequence)
LastSlice(s, n) ==
    IF n = 0 \/ n >= Len(s) THEN s ELSE SubSeq(s, Len(s) - n + 1, Len(s))

\* numpy broadcasting of a 1-d source into a 1-d destination
CanBroadcast(srcLen, dstLen) == srcLen = dstLen \/ srcLen = 1

\* the cast numpy applies when a value is stored into a float64 array
AsFloat64(z) == Re(z)

\* dst[:] = src, for shapes that broadcast
AssignSlice(dst, src) ==
    [m \in 1..Len(dst) |-> AsFloat64(IF Len(src) = Len(dst) THEN src[m] ELSE src[1])]

\* ------------------------------------------------------------- fir_filter
\* line 13 raises when the concatenated array is empty, line 14 when the
\* saved slice does not broadcast into previous_batch
RaisesOn(state, batch) ==
    \/ Len(state) + Len(batch) = 0
    \/ ~CanBroadcast(Len(LastSlice(batch, Len(taps) - 1)), Len(state))

\* line 13 and line 14 for an instance whose state buffer holds `state`
OutOn(state, batch) == ConvolveValid(Concatenate(state, batch), taps)

StateOn(state, batch) == AssignSlice(state, LastSlice(batch, Len(taps) - 1))

FilterRaises(batch) == RaisesOn(previous_batch, batch)

FilterOut(batch) == OutOn(previous_batch, batch)

FilterState(batch) == StateOn(previous_batch, batch)

\* one iteration of the driver loop: take the next batch, run the filter,
\* append the output to the log
Filter(batch) ==
    /\ Len(x) + Len(batch) <= MaxSignal
    /\ x_input' = batch
    /\ short_fed' = (short_fed \/ Len(batch) < Len(taps) - 1)
    /\ IF FilterRaises(batch)
       THEN /\ raised' = TRUE
            /\ UNCHANGED <<previous_batch, filter_output, y2, x>>
       ELSE /\ raised' = FALSE
            /\ filter_output' = FilterOut(batch)
            /\ previous_batch' = FilterState(batch)
            /\ y2' = y2 \o FilterOut(batch)
            /\ x' = x \o batch
    /\ instance' = 1
    /\ batch_overwritten' = FALSE
    /\ UNCHANGED <<taps, previous_batch_2, app_vars>>

FilterStep == \E batch \in SeqsUpTo(SampleValues, MaxSignal - Len(x)) : Filter(batch)

\* ------------------------------------------------------ usrp_qt5_app.py
rx_channels == <<0>>
num_channels == Len(rx_channels)

\* the sample rates the device may report (samples per second) and the
\* sample counts recv may return
Rates == 1..2
RecvCounts == 0..1

ErrorCodes == {"none", "overflow", "late", "timeout", "other"}

\* the keys of rx_statistics in the order the worker stores them
StatKeys ==
    <<"num_rx_samps", "num_rx_dropped", "num_rx_overruns", "num_rx_seqerr",
      "num_rx_timeouts", "num_rx_late">>

\* num_rx_late stored from the timeout counter
StatValue_LateFromTimeouts(key) ==
    CASE key = "num_rx_samps" -> num_rx_samps
      [] key = "num_rx_dropped" -> num_rx_dropped
      [] key = "num_rx_overruns" -> num_rx_overruns
      [] key = "num_rx_seqerr" -> num_rx_seqerr
      [] key = "num_rx_timeouts" -> num_rx_timeouts
      [] key = "num_rx_late" -> num_rx_timeouts

\* the local that is stored under a key
StatValue(key) ==
    CASE key = "num_rx_samps" -> num_rx_samps
      [] key = "num_rx_dropped" -> num_rx_dropped
      [] key = "num_rx_overruns" -> num_rx_overruns
      [] key = "num_rx_seqerr" -> num_rx_seqerr
      [] key = "num_rx_timeouts" -> num_rx_timeouts
      [] key = "num_rx_late" -> num_rx_late

\* TimeSpec(secs).to_ticks(rate): the whole seconds and the fraction of a
\* second are converted separately, the fractional ticks are rounded
ToTicks(elapsed, tick_rate) ==
    LET full_secs == elapsed \div TimeDen
        frac == elapsed - full_secs * TimeDen
    IN  full_secs * tick_rate + (2 * frac * tick_rate + TimeDen) \div (2 * TimeDen)

\* the count of the last batch stored where it is to be added
SampsAfter_Overwrite(n) == n * num_channels

\* line 83
SampsAfter(n) == num_rx_samps + n * num_channels

\* a late batch clearing the overflow flag
HadAfter_LateClears(code) ==
    IF code \in {"none", "late"} THEN FALSE
    ELSE IF code = "overflow" THEN TRUE
    ELSE had_an_overflow

\* the estimate also added when an overflow follows an unresolved overflow
DroppedAfter_CountsPending(code, t) ==
    IF code \in {"none", "overflow"} /\ had_an_overflow
    THEN num_rx_dropped + ToTicks(t - last_overflow, rate)
    ELSE num_rx_dropped

\* the estimate added on every Ok batch, overflow or not
DroppedAfter_EveryOk(code, t) ==
    IF code = "none"
    THEN num_rx_dropped + ToTicks(t - last_overflow, rate)
    ELSE num_rx_dropped

\* lines 108-117: the overflow flag, the recorded overflow time and the
\* dropped-sample estimate after a batch with this error code and timestamp
HadAfter(code) ==
    IF code = "none" THEN FALSE
    ELSE IF code = "overflow" THEN TRUE
    ELSE had_an_overflow

LastOverflowAfter(code, t) == IF code = "overflow" THEN t ELSE last_overflow

DroppedAfter(code, t) ==
    IF code = "none" /\ had_an_overflow
    THEN num_rx_dropped + ToTicks(t - last_overflow, rate)
    ELSE num_rx_dropped

\* every overflow counted as a sequence error, out of sequence or not
SeqerrAfter_EveryOverflow(code, oos) ==
    IF code = "overflow" THEN num_rx_seqerr + 1 ELSE num_rx_seqerr

\* an unrecognised error code counted with the timeouts
TimeoutsAfter_CountsOther(code) ==
    IF code \in {"timeout", "other"} THEN num_rx_timeouts + 1 ELSE num_rx_timeouts

\* a timeout restarting streaming as a late command does
StreamCmdsAfter_TimeoutRestarts(code) ==
    IF code \in {"late", "timeout"}
    THEN Append(stream_cmds, "start_cont") ELSE stream_cmds

\* lines 118-135: the event counters
SeqerrAfter(code, oos) ==
    IF code = "overflow" /\ oos THEN num_rx_seqerr + 1 ELSE num_rx_seqerr
OverrunsAfter(code, oos) ==
    IF code = "overflow" /\ ~oos THEN num_rx_overruns + 1 ELSE num_rx_overruns
LateAfter(code) == IF code = "late" THEN num_rx_late + 1 ELSE num_rx_late
TimeoutsAfter(code) == IF code = "timeout" THEN num_rx_timeouts + 1 ELSE num_rx_timeouts

\* lines 129-132: a late command restarts streaming
StreamCmdsAfter(code) ==
    IF code = "late" THEN Append(stream_cmds, "start_cont") ELSE stream_cmds

\* the loop test never looking at the event
WorkerWhile_IgnoresEvent ==
    /\ pc_worker = "while"
    /\ i < MaxRecv
    /\ pc_worker' = "recv"
    /\ UNCHANGED <<filter_vars, worker_vars, pc_main, timer_elapsed_event,
                   rx_statistics, stream_cmds, snapshot, snapshot_taken>>

\* line 81: the loop test.  The worker goes on only while fewer than MaxRecv
\* batches were received.
WorkerWhile ==
    /\ pc_worker = "while"
    /\ IF timer_elapsed_event
       THEN pc_worker' = "publish"
       ELSE /\ i < MaxRecv
            /\ pc_worker' = "recv"
    /\ UNCHANGED <<filter_vars, worker_vars, pc_main, timer_elapsed_event,
                   rx_statistics, stream_cmds, snapshot, snapshot_taken>>

\* lines 82-138: one batch is received and its error code handled
WorkerRecv(code, oos, t, n) ==
    /\ pc_worker = "recv"
    /\ recv_ret' = n
    /\ md_error_code' = code
    /\ md_out_of_sequence' = oos
    /\ md_time_spec' = t
    /\ i' = i + 1
    /\ num_rx_samps' = SampsAfter(n)
    /\ had_an_overflow' = HadAfter(code)
    /\ last_overflow' = LastOverflowAfter(code, t)
    /\ num_rx_dropped' = DroppedAfter(code, t)
    /\ num_rx_seqerr' = SeqerrAfter(code, oos)
    /\ num_rx_overruns' = OverrunsAfter(code, oos)
    /\ num_rx_late' = LateAfter(code)
    /\ num_rx_timeouts' = TimeoutsAfter(code)
    /\ stream_cmds' = StreamCmdsAfter(code)
    /\ pc_worker' = "while"
    /\ UNCHANGED <<filter_vars, rate, pc_main, timer_elapsed_event,
                   rx_statistics, snapshot, snapshot_taken>>

\* lines 103-105: recv raises RuntimeError and the worker returns
WorkerRecvRaises ==
    /\ pc_worker = "recv"
    /\ pc_worker' = "returned_on_error"
    /\ UNCHANGED <<filter_vars, worker_vars, pc_main, timer_elapsed_event,
                   rx_statistics, stream_cmds, snapshot, snapshot_taken>>

\* lines 141-146: one statistic is stored per step, in the order of StatKeys
WorkerPublish ==
    /\ pc_worker = "publish"
    /\ LET key == StatKeys[Cardinality(rx_statistics) + 1]
       IN  rx_statistics' = rx_statistics \cup {<<key, StatValue(key)>>}
    /\ pc_worker' = IF Cardinality(rx_statistics) + 1 = Len(StatKeys)
                    THEN "stop" ELSE "publish"
    /\ UNCHANGED <<filter_vars, worker_vars, pc_main, timer_elapsed_event,
                   stream_cmds, snapshot, snapshot_taken>>

\* line 148
WorkerStop ==
    /\ pc_worker = "stop"
    /\ stream_cmds' = Append(stream_cmds, "stop_cont")
    /\ pc_worker' = "returned"
    /\ UNCHANGED <<filter_vars, worker_vars, pc_main, timer_elapsed_event,
                   rx_statistics, snapshot, snapshot_taken>>

\* lines 234-237: the Qt event loop ends and the main thread sets the event
MainQuit ==
    /\ pc_main = "exec"
    /\ timer_elapsed_event' = TRUE
    /\ pc_main' = "join"
    /\ UNCHANGED <<filter_vars, worker_vars, pc_worker, rx_statistics,
                   stream_cmds, snapshot, snapshot_taken>>

\* lines 238-251: join returns once the worker has returned
MainJoin ==
    /\ pc_main = "join"
    /\ pc_worker \in {"returned", "returned_on_error"}
    /\ pc_main' = "done"
    /\ UNCHANGED <<filter_vars, worker_vars, pc_worker, timer_elapsed_event,
                   rx_statistics, stream_cmds, snapshot, snapshot_taken>>

\* a read of the statistics dictionary by a thread other than the worker
ReadStatistics ==
    /\ ~snapshot_taken
    /\ snapshot' = rx_statistics
    /\ snapshot_taken' = TRUE
    /\ UNCHANGED <<filter_vars, worker_vars, pc_worker, pc_main,
                   timer_elapsed_event, rx_statistics, stream_cmds>>

RecvStep ==
    \E code \in ErrorCodes, t \in 0..MaxTime, n \in RecvCounts :
        \E oos \in (IF code = "overflow" THEN BOOLEAN ELSE {FALSE}) :
            WorkerRecv(code, oos, t, n)

\* the state of the application when the worker enters its loop (line 81)
AppStart ==
    /\ had_an_overflow = FALSE
    /\ last_overflow = 0
    /\ num_rx_samps = 0
    /\ num_rx_dropped = 0
    /\ num_rx_overruns = 0
    /\ num_rx_seqerr = 0
    /\ num_rx_timeouts = 0
    /\ num_rx_late = 0
    /\ i = 0
    /\ recv_ret = 0
    /\ md_error_code = "none"
    /\ md_out_of_sequence = FALSE
    /\ md_time_spec = 0
    /\ pc_worker = "while"
    /\ pc_main = "exec"
    /\ timer_elapsed_event = FALSE
    /\ rx_statistics = {}
    /\ stream_cmds = <<"start_cont">>
    /\ snapshot = {}
    /\ snapshot_taken = FALSE

\* no filter is in use by the application
NoFilter ==
    /\ taps = <<>>
    /\ previous_batch = <<>>
    /\ x = <<>>
    /\ x_input = <<>>
    /\ filter_output = <<>>
    /\ y2 = <<>>
    /\ raised = FALSE
    /\ short_fed = FALSE
    /\ previous_batch_2 = <<>>
    /\ instance = 0
    /\ batch_overwritten = FALSE

Init ==
    /\ NoFilter
    /\ AppStart
    /\ rate \in Rates

\* the program: the receive worker and the main thread
Next ==
    \/ WorkerWhile
    \/ RecvStep
    \/ WorkerRecvRaises
    \/ WorkerPublish
    \/ WorkerStop
    \/ MainQuit
    \/ MainJoin

Spec == Init /\ [][Next]_vars

\* the program with a further thread that reads the statistics once, at any time
ReaderNext ==
    \/ Next
    \/ ReadStatistics

ReaderSpec == Init /\ [][ReaderNext]_vars

FilterInit ==
    /\ taps \in SeqsFromTo(TapValues, 1, MaxTaps)
    /\ previous_batch = Zeros(Len(taps) - 1)
    /\ x = <<>>
    /\ x_input = <<>>
    /\ filter_output = <<>>
    /\ y2 = <<>>
    /\ raised = FALSE
    /\ short_fed = FALSE
    /\ previous_batch_2 = Zeros(Len(taps) - 1)
    /\ instance = 0
    /\ batch_overwritten = FALSE
    /\ AppStart
    /\ rate = 1

FilterNext == FilterStep

FilterSpec == FilterInit /\ [][FilterNext]_vars

\* ---------------------------------------- two instances built from one taps
\* the two instances having one state buffer between them
InstancesShareState_OneBuffer == TRUE

\* lines 10-11: taps is stored by reference, previous_batch is an array that
\* np.zeros allocates anew in every __init__
InstancesShareState == FALSE

\* the values the batches of this scenario are made of
InstanceSamples == {<<1, 0>>, <<2, 0>>}

\* the batches of this scenario: as long as the state buffer, or one longer
InstanceBatches == SeqsFromTo(InstanceSamples, Len(taps) - 1, Len(taps))

\* the state buffer of instance k
StateOf(k) == IF k = 1 THEN previous_batch ELSE previous_batch_2

\* lines 12-15 called on instance k
FilterOn(k, batch) ==
    /\ instance' = k
    /\ x_input' = batch
    /\ IF RaisesOn(StateOf(k), batch)
       THEN /\ raised' = TRUE
            /\ UNCHANGED <<previous_batch, previous_batch_2, filter_output>>
       ELSE /\ raised' = FALSE
            /\ filter_output' = OutOn(StateOf(k), batch)
            /\ previous_batch' =
                   IF k = 1 \/ InstancesShareState
                   THEN StateOn(StateOf(k), batch) ELSE previous_batch
            /\ previous_batch_2' =
                   IF k = 2 \/ InstancesShareState
                   THEN StateOn(StateOf(k), batch) ELSE previous_batch_2
    /\ UNCHANGED <<taps, x, y2, short_fed, batch_overwritten, app_vars>>

FilterFirst == \E batch \in InstanceBatches : FilterOn(1, batch)

FilterSecond == \E batch \in InstanceBatches : FilterOn(2, batch)

TwoFilterNext == FilterFirst \/ FilterSecond

\* both instances are built from one kernel, whose first tap varies
TwoFilterInit ==
    /\ FilterInit
    /\ \A m \in 2..Len(taps) : taps[m] = ToComplex(1)

TwoFilterSpec == TwoFilterInit /\ [][TwoFilterNext]_vars

\* ------------------------------------------- the caller reuses its buffer
\* previous_batch rebound to a view of the caller's batch
StateAliasesBatch_View == TRUE

\* line 14: the slice assignment previous_batch[:] = ... copies the values
\* into the array allocated at line 11, which shares no memory with x
StateAliasesBatch == FALSE

\* usrp_qt5_app.py line 83: the caller receives into the buffer it passed to
\* the last filter call; the array np.convolve returned at line 13 was built
\* from the copy np.concatenate made and stays as it is
OverwriteBatch ==
    /\ x_input # <<>>
    /\ \E v \in SampleValues : x_input' = [m \in 1..Len(x_input) |-> v]
    /\ batch_overwritten' = TRUE
    /\ previous_batch' =
           IF StateAliasesBatch /\ ~RaisesOn(previous_batch, x_input')
           THEN StateOn(previous_batch, x_input') ELSE previous_batch
    /\ UNCHANGED <<taps, x, filter_output, y2, raised, short_fed,
                   previous_batch_2, instance, app_vars>>

ReuseNext == FilterStep \/ OverwriteBatch

ReuseSpec == FilterInit /\ [][ReuseNext]_vars

\* -------------------------------------------------- scheduling of the app
\* the program when no recv call raises
LiveNext ==
    \/ WorkerWhile
    \/ RecvStep
    \/ WorkerPublish
    \/ WorkerStop
    \/ MainQuit
    \/ MainJoin

\* the worker thread keeps running while it has a step to take (recv returns
\* after its timeout at the latest), and join returns once the worker has
\* ended; nothing makes the user close the window
LiveSpec ==
    /\ Init
    /\ [][LiveNext]_vars
    /\ WF_vars(WorkerWhile)
    /\ WF_vars(RecvStep)
    /\ WF_vars(WorkerPublish)
    /\ WF_vars(WorkerStop)
    /\ WF_vars(MainJoin)

\* ------------------------------------------------------ filter properties
\* the last n elements of s
Last(s, n) == SubSeq(s, Len(s) - n + 1, Len(s))
\* s without its first n elements
DropFirst(s, n) == SubSeq(s, n + 1, Len(s))
StateAsSamples == [m \in 1..Len(previous_batch) |-> ToComplex(previous_batch[m])]

\* C1: for a real kernel of N >= 2 taps and a real signal of length >= N fed
\* in batches of length >= N-1 each, the concatenated outputs without their
\* first N-1 samples are the valid-mode convolution of the whole signal.
C1_Continuity ==
    (Len(taps) >= 2 /\ ~short_fed /\ IsReal(x) /\ Len(x) >= Len(taps))
        => DropFirst(y2, Len(taps) - 1) = ConvolveValid(x, taps)

\* a real signal of MaxSignal samples has gone through a 3-tap filter in at
\* least two batches, the last one of the minimal length 2
C1_Witness ==
    /\ Len(taps) = 3 /\ ~short_fed /\ IsReal(x) /\ ~raised
    /\ Len(x) = MaxSignal /\ Len(x_input) = 2
    /\ \A m \in 1..Len(x) : Re(x[m]) = 1

\* C4 (as claimed): a call with a batch shorter than N-1 raises and leaves
\* the state buffer as it was.
C4_ShortBatchRejected ==
    [][Len(x_input') < Len(taps) - 1
         => (raised' /\ previous_batch' = previous_batch)]_vars

\* C5 (as claimed): the state buffer has N-1 entries, is all zeros before
\* anything was fed, and after a successful call with a batch of length
\* >= N-1 holds the last N-1 input samples of that batch.
C5_StateIsInputTail ==
    /\ Len(previous_batch) = Len(taps) - 1
    /\ x = <<>> => previous_batch = Zeros(Len(taps) - 1)
    /\ (x # <<>> /\ ~raised /\ Len(x_input) >= Len(taps) - 1)
          => StateAsSamples = Last(x_input, Len(taps) - 1)

\* C9 (as claimed): complex batches are handled as real ones: the retained
\* state keeps the imaginary parts and the streamed outputs of a complex
\* signal continue seamlessly.
C9_ComplexContinuity ==
    (Len(taps) >= 2 /\ ~short_fed /\ Len(x) >= Len(taps))
        => /\ ~raised => \A m \in 1..Len(previous_batch) :
                 Im(Last(x_input, Len(taps) - 1)[m]) = Im(StateAsSamples[m])
           /\ DropFirst(y2, Len(taps) - 1) = ConvolveValid(x, taps)

\* ------------------------------------------------- accounting properties
\* a step in which the worker received a batch (lines 82-138)
BatchObserved == i' # i

\* num / den rounded to the nearest integer
Round(num, den) == (2 * num + den) \div (2 * den)

Counters ==
    <<num_rx_samps, num_rx_dropped, num_rx_overruns, num_rx_seqerr,
      num_rx_timeouts, num_rx_late>>

\* C2 (as claimed): an Overflow observed while an overflow is unresolved
\* leaves the recorded onset timestamp at that of the first Overflow.
C2_OnsetNotReset ==
    [][(BatchObserved /\ had_an_overflow /\ md_error_code' = "overflow")
         => last_overflow' = last_overflow]_vars

\* C3: the dropped-sample estimate changes only when an Ok batch is observed
\* while an overflow is in progress, by the rounded product of the tick rate
\* and the time since the recorded overflow time, and that Ok ends the
\* episode; every other step leaves the estimate unchanged.
C3_DroppedOnlyOnResolvingOk ==
    [][IF BatchObserved /\ md_error_code' = "none" /\ had_an_overflow
       THEN /\ num_rx_dropped' = num_rx_dropped
                  + Round((md_time_spec' - last_overflow) * rate, TimeDen)
            /\ ~had_an_overflow'
       ELSE num_rx_dropped' = num_rx_dropped]_vars

\* an Ok has resolved an overflow with a non-zero estimate, and the batch
\* after it was Ok too
C3_Witness ==
    /\ i = 3 /\ md_error_code = "none" /\ ~had_an_overflow
    /\ num_rx_overruns = 1 /\ num_rx_seqerr = 0
    /\ num_rx_late = 0 /\ num_rx_timeouts = 0
    /\ num_rx_dropped = 1

\* C6: the overflow flag is set exactly when an Overflow was observed and no
\* Ok after the most recent one: it is clear before the first batch, an
\* Overflow sets it, an Ok clears it, and Late, Timeout and unknown codes
\* change neither the flag nor the recorded overflow time.
C6_OverflowPending ==
    [][/\ i = 0 => ~had_an_overflow
       /\ BatchObserved =>
            /\ had_an_overflow' <=>
                  \/ md_error_code' = "overflow"
                  \/ (had_an_overflow /\ md_error_code' # "none")
            /\ md_error_code' \in {"late", "timeout", "other"}
                  => UNCHANGED <<had_an_overflow, last_overflow>>
       /\ ~BatchObserved => UNCHANGED <<had_an_overflow, last_overflow>>]_vars

\* an overflow is pending and a Late batch has been observed after it
C6_Witness ==
    /\ had_an_overflow /\ md_error_code = "late" /\ i >= 2
    /\ num_rx_overruns + num_rx_seqerr >= 1

\* C7 (as claimed): no statistic is negative and none ever decreases.
C7_MonotonicCounters ==
    [][\A k \in 1..Len(Counters) :
          Counters'[k] >= Counters[k] /\ Counters'[k] >= 0]_vars

\* C8 (as claimed): only an Ok batch adds to num_rx_samps, its sample count.
C8_OnlyOkCounted ==
    [][BatchObserved =>
          num_rx_samps' = IF md_error_code' = "none"
                          THEN num_rx_samps + recv_ret'
                          ELSE num_rx_samps]_vars

\* C8 (amended): every received batch, whatever its error code, adds the
\* count returned by recv times the number of channels to num_rx_samps, and
\* nothing else changes num_rx_samps.
C8_EveryBatchCounted ==
    [][num_rx_samps' = IF BatchObserved
                       THEN num_rx_samps + recv_ret' * num_channels
                       ELSE num_rx_samps]_vars

\* a batch with an error code other than none has delivered samples
C8_Witness ==
    /\ md_error_code \in {"overflow", "late", "timeout", "other"}
    /\ recv_ret > 0 /\ num_rx_samps = i * num_channels /\ i >= 2

\* the complete statistics record
FullRecord ==
    {<<"num_rx_samps", num_rx_samps>>, <<"num_rx_dropped", num_rx_dropped>>,
     <<"num_rx_overruns", num_rx_overruns>>, <<"num_rx_seqerr", num_rx_seqerr>>,
     <<"num_rx_timeouts", num_rx_timeouts>>, <<"num_rx_late", num_rx_late>>}
KeysOf(d) == {p[1] : p \in d}
StatKeySet == {StatKeys[k] : k \in 1..Len(StatKeys)}

\* C10 (as claimed): a read made at any time returns a complete record.
C10_AnyReadComplete == snapshot_taken => KeysOf(snapshot) = StatKeySet

\* C10 (amended): a read made after the worker has stored its last
\* statistic (line 146) returns the complete record with the final values of
\* all six counters; a read made while the statistics are being stored
\* returns some but not all of them, and any other read an empty record.
C10_ReadAfterPublication ==
    [][(~snapshot_taken /\ snapshot_taken') =>
          IF pc_worker \in {"stop", "returned"}
          THEN snapshot' = FullRecord
          ELSE IF pc_worker = "publish"
          THEN snapshot' \subseteq FullRecord /\ snapshot' # FullRecord
          ELSE snapshot' = {}]_vars

\* a read after the publication has returned a record with non-zero counters
C10_Witness ==
    /\ snapshot_taken /\ KeysOf(snapshot) = StatKeySet
    /\ <<"num_rx_late", 1>> \in snapshot /\ <<"num_rx_timeouts", 2>> \in snapshot

\* C11: every batch with the overflow error code, received with or without
\* an overflow already in progress, adds one to exactly one of the two
\* classification counters - num_rx_seqerr when the metadata is marked out
\* of sequence, num_rx_overruns otherwise - and leaves the other one,
\* num_rx_late and num_rx_timeouts unchanged.
C11_OverflowClassified ==
    [][(BatchObserved /\ md_error_code' = "overflow")
         => /\ IF md_out_of_sequence'
               THEN /\ num_rx_seqerr' = num_rx_seqerr + 1
                    /\ num_rx_overruns' = num_rx_overruns
               ELSE /\ num_rx_overruns' = num_rx_overruns + 1
                    /\ num_rx_seqerr' = num_rx_seqerr
            /\ num_rx_late' = num_rx_late
            /\ num_rx_timeouts' = num_rx_timeouts]_vars

\* two overflows in a row, the second one received while the first was
\* unresolved, one of them out of sequence and the other not
C11_Witness ==
    /\ i = 2 /\ had_an_overflow /\ md_error_code = "overflow"
    /\ num_rx_seqerr = 1 /\ num_rx_overruns = 1

\* C12 (as claimed): an unrecognised error code is counted in an
\* unknown-error counter that is among the published statistics.
C12_UnknownCounted ==
    pc_worker = "returned" => "num_rx_unknown" \in KeysOf(rx_statistics)

\* C12 (amended): a batch with an unrecognised error code is absorbed without
\* being counted: apart from num_rx_samps, which grows by the reported sample
\* count as for every batch, no counter changes, the overflow flag, the
\* recorded overflow time and the stream commands stay as they were, the
\* published statistics never hold anything but the six counters, and the
\* worker goes back to its loop test.
C12_UnknownOnlyLogged ==
    [][/\ (BatchObserved /\ md_error_code' = "other")
            => /\ num_rx_samps' = num_rx_samps + recv_ret' * num_channels
               /\ UNCHANGED <<num_rx_dropped, num_rx_overruns, num_rx_seqerr,
                              num_rx_timeouts, num_rx_late, had_an_overflow,
                              last_overflow, stream_cmds, rx_statistics>>
               /\ pc_worker' = "while"
       /\ KeysOf(rx_statistics') \subseteq StatKeySet]_vars

\* an unrecognised error code came with one sample while an overflow was
\* unresolved, and the worker has gone on to its next recv
C12_Witness ==
    /\ i = 2 /\ md_error_code = "other" /\ recv_ret = 1
    /\ had_an_overflow /\ pc_worker = "recv"

\* C13 (as claimed): the handling of a late command adds one to num_rx_late
\* and changes nothing else; it does not itself restart streaming.
C13_LateOnlyCounts ==
    [][(BatchObserved /\ md_error_code' = "late")
         => /\ num_rx_late' = num_rx_late + 1
            /\ UNCHANGED <<had_an_overflow, last_overflow, num_rx_dropped,
                           num_rx_overruns, num_rx_seqerr, num_rx_timeouts,
                           stream_cmds>>]_vars

\* C13 (amended): the handling of a late command adds one to num_rx_late,
\* leaves the overflow flag, the recorded overflow time and the dropped,
\* overrun, sequence-error and timeout counters unchanged, and itself issues
\* exactly one start_cont stream command before the next batch is received;
\* no other error code issues a stream command.
C13_LateRestartsOnce ==
    [][BatchObserved
         => IF md_error_code' = "late"
            THEN /\ num_rx_late' = num_rx_late + 1
                 /\ UNCHANGED <<had_an_overflow, last_overflow, num_rx_dropped,
                                num_rx_overruns, num_rx_seqerr, num_rx_timeouts>>
                 /\ stream_cmds' = Append(stream_cmds, "start_cont")
                 /\ pc_worker' = "while"
            ELSE stream_cmds' = stream_cmds]_vars

\* two late commands were received, the second one while an overflow was
\* unresolved, and streaming was restarted once for each
C13_Witness ==
    /\ num_rx_late = 2 /\ had_an_overflow /\ md_error_code = "late"
    /\ stream_cmds = <<"start_cont", "start_cont", "start_cont">>

\* ------------------------------------------------ further filter properties
\* C14 (as claimed): for every kernel of N taps, a call with a batch of
\* length >= N-1 returns exactly as many output samples as the batch has.
C14_OutputLength ==
    [][Len(x_input') >= Len(taps) - 1
         => (~raised' /\ Len(filter_output') = Len(x_input'))]_vars

\* C15 (as claimed): with a single tap every call with a non-empty batch
\* succeeds, returns the batch scaled by the tap, and leaves the state
\* buffer empty.
C15_SingleTap ==
    [][(Len(taps) = 1 /\ Len(x_input') >= 1)
         => /\ ~raised'
            /\ filter_output' =
                  [m \in 1..Len(x_input') |-> CMul(taps[1], x_input'[m])]
            /\ previous_batch' = <<>>]_vars

C18_PublishedOnEveryReturn ==
    pc_worker \in {"returned", "returned_on_error"}
        => /\ rx_statistics = FullRecord
           /\ stream_cmds[Len(stream_cmds)] = "stop_cont"

\* C19: an overflow adds nothing to the dropped-sample estimate, nor does
\* anything the worker does after its last batch, and the published
\* num_rx_dropped is the estimate as it stood then: an overflow still
\* unresolved at the end is counted as overrun or sequence error but
\* contributes no dropped samples.
C19_UnresolvedAddsNothing ==
    [][/\ (BatchObserved /\ md_error_code' = "overflow")
            => /\ num_rx_dropped' = num_rx_dropped
               /\ num_rx_overruns' + num_rx_seqerr'
                     = num_rx_overruns + num_rx_seqerr + 1
       /\ ~BatchObserved => num_rx_dropped' = num_rx_dropped
       /\ \A p \in rx_statistics' :
             p[1] = "num_rx_dropped" => p[2] = num_rx_dropped]_vars

\* at rate 1 an overflow at time 0 was resolved by an Ok at time 1 (one
\* sample dropped), a second overflow at time 0 was still unresolved when the
\* worker ended, and the published estimate is that of the first episode
C19_Witness ==
    /\ pc_worker = "returned" /\ had_an_overflow /\ i = 3
    /\ rate = 1 /\ md_error_code = "overflow" /\ md_time_spec = 0
    /\ num_rx_overruns + num_rx_seqerr = 2
    /\ num_rx_dropped = 1
    /\ <<"num_rx_dropped", 1>> \in rx_statistics

\* C20: when no recv call raises, once the stop event is set the worker
\* leaves its loop, publishes the six counters, issues the stop command and
\* returns, and the main thread's join completes.
C20_ShutdownLiveness ==
    timer_elapsed_event
        ~> (/\ pc_worker = "returned"
            /\ pc_main = "done"
            /\ rx_statistics = FullRecord
            /\ stream_cmds[Len(stream_cmds)] = "stop_cont")

\* the session ended with join completed after a last batch that was late
\* and restarted streaming before the stop command
C20_Witness ==
    /\ pc_main = "done" /\ pc_worker = "returned"
    /\ md_error_code = "late" /\ i >= 1
    /\ rx_statistics = FullRecord
    /\ Len(stream_cmds) >= 3
    /\ stream_cmds[Len(stream_cmds) - 1] = "start_cont"
    /\ stream_cmds[Len(stream_cmds)] = "stop_cont"

====
